---- MODULE Spec2Model ----
(***************************************************************************)
(* postcss-plugin-split-chunks: the Once handler of src/index.js, which    *)
(* partitions the top-level nodes of a parsed stylesheet into chunks       *)
(* bounded by opts.size bytes.                                             *)
(*                                                                         *)
(* The parsed stylesheet is a table `ast` of nodes (the objects the parser *)
(* handed to the plugin) and a root that lists the top-level ones.  A node *)
(* is named by its position in the document (its postcss `source`), so     *)
(* document order is the order of the naturals.  Output chunks are trees   *)
(* of clones.  Byte sizes are those of minified css: the text of an        *)
(* at-rule is its header and braces (`own`) followed by the texts of its   *)
(* children.                                                               *)
(***************************************************************************)
EXTENDS Integers, Sequences, FiniteSets, TLC

\* Bounds of the model.
MaxNodes == 4
MaxLimit == 4

Null == "null"

(***************************************************************************)
(* Inputs: every stylesheet of at most MaxNodes nodes built from these     *)
(* node kinds, not counting a statement at-rule that opens the stylesheet  *)
(* (`@charset`, `@import` and `@layer base;` come first).  body tells      *)
(* whether the node has a `nodes` list: a rule and an at-rule with braces  *)
(* have one, a declaration and an at-rule that ends with a semicolon       *)
(* (`@layer base;`) have none.  The code treats a comment like a           *)
(* declaration: the "decl" kind stands for both.                           *)
(***************************************************************************)
Kinds ==
  { [type |-> "rule",   name |-> "undefined", params |-> "undefined", selector |-> ".a", own |-> 2, body |-> TRUE],
    [type |-> "decl",   name |-> "undefined", params |-> "undefined", selector |-> "undefined", own |-> 2, body |-> FALSE],
    [type |-> "atrule", name |-> "media",     params |-> "screen",    selector |-> "undefined", own |-> 1, body |-> TRUE],
    [type |-> "atrule", name |-> "media",     params |-> "screen",    selector |-> "undefined", own |-> 1, body |-> FALSE],
    [type |-> "atrule", name |-> "media",     params |-> "print",     selector |-> "undefined", own |-> 1, body |-> TRUE],
    [type |-> "atrule", name |-> "keyframes", params |-> "k",         selector |-> "undefined", own |-> 1, body |-> TRUE] }

Limits == 0..MaxLimit

VARIABLES
  ast,               \* the nodes of the caller's tree, by source position
  root,              \* the caller's root: [nodes |-> top-level node ids]
  parsed,            \* history: root.nodes as handed to the plugin
  size,              \* opts.size
  currentChunk,      \* chunk being built: [nodes |-> output nodes]
  currentChunkSize,  \* estimated byte size of currentChunk
  finalChunks,       \* completed chunks, in order
  warnings,          \* result.messages: the warnings of node.warn
  work,              \* pending addNode calls: the forEach iterations not yet made
  visited,           \* history: the nodes addNode was called with, in order
  previous,          \* history: chunks and warnings of the runs before this one
  pc                 \* "parsing" | "running" | "done" | "aborted"

vars == <<ast, root, parsed, size, currentChunk, currentChunkSize, finalChunks,
          warnings, work, visited, previous, pc>>

PostcssRoot == [nodes |-> <<>>]

\* The plugin is constructed with opts.size; nothing is parsed yet.
Init ==
  /\ ast = <<>>
  /\ root = PostcssRoot
  /\ parsed = <<>>
  /\ size \in Limits
  /\ currentChunk = PostcssRoot
  /\ currentChunkSize = 0
  /\ finalChunks = <<>>
  /\ warnings = <<>>
  /\ work = <<>>
  /\ visited = <<>>
  /\ previous = <<>>
  /\ pc = "parsing"

(***************************************************************************)
(* The parser: the stylesheet is read front to back, each node appended to *)
(* the root or to an at-rule that is still open, i.e. on the path from the *)
(* root to the node read last.  Only at-rules have children here (the      *)
(* declarations of a rule are part of its text).  The code compares params *)
(* for equality only, so the first @media of a stylesheet is taken to be   *)
(* the `screen` one.                                                       *)
(***************************************************************************)
RECURSIVE OpenAtRules(_, _)
OpenAtRules(a, ids) ==
  IF ids = <<>> THEN {}
  ELSE LET l == ids[Len(ids)]
       IN  IF a[l].type = "atrule" /\ a[l].body
             THEN {l} \cup OpenAtRules(a, a[l].nodes) ELSE {}

ParseNode ==
  /\ pc = "parsing"
  /\ Len(ast) < MaxNodes + (IF ast # <<>> /\ ast[1].type = "atrule" /\ ~ast[1].body
                              THEN 1 ELSE 0)
  /\ \E kind \in Kinds, c \in {0} \cup OpenAtRules(ast, root.nodes) :
       LET n == Len(ast) + 1
           node == [type |-> kind.type, name |-> kind.name, params |-> kind.params,
                    selector |-> kind.selector, own |-> kind.own, body |-> kind.body,
                    source |-> n, nodes |-> <<>>]
       IN  /\ kind.params = "print" => \E j \in 1..Len(ast) : ast[j].params = "screen"
           /\ IF c = 0
                THEN /\ ast' = Append(ast, node)
                     /\ root' = [root EXCEPT !.nodes = Append(@, n)]
                ELSE /\ ast' = Append([ast EXCEPT ![c].nodes = Append(@, n)], node)
                     /\ root' = root
  /\ parsed' = root'.nodes
  /\ UNCHANGED <<size, currentChunk, currentChunkSize, finalChunks, warnings,
                 work, visited, previous, pc>>

(***************************************************************************)
(* Sizes and clones.                                                       *)
(***************************************************************************)
RECURSIVE SumSizes(_, _), NodeSize(_, _)
\* Buffer.byteLength(node.toString(), "utf8") of input node i.
NodeSize(a, i) == a[i].own + SumSizes(a, a[i].nodes)
SumSizes(a, ids) ==
  IF ids = <<>> THEN 0 ELSE NodeSize(a, Head(ids)) + SumSizes(a, Tail(ids))

\* node.clone(): a deep copy.  `role` tells the copies apart in the output:
\* "placed" is the node addNode appended, "inner" a descendant copied with it.
RECURSIVE Clone(_, _, _)
Clone(a, i, role) ==
  [type |-> a[i].type, name |-> a[i].name, params |-> a[i].params,
   selector |-> a[i].selector, own |-> a[i].own, body |-> a[i].body,
   source |-> a[i].source, role |-> role,
   nodes |-> [j \in 1..Len(a[i].nodes) |-> Clone(a, a[i].nodes[j], "inner")]]

\* parentAtRule.clone({ nodes: [] }): the at-rule without its children.
Shell(a, i) ==
  [type |-> a[i].type, name |-> a[i].name, params |-> a[i].params,
   selector |-> a[i].selector, own |-> a[i].own, body |-> TRUE,
   source |-> a[i].source, role |-> "shell", nodes |-> <<>>]

RECURSIVE OutSize(_), SumOut(_)
\* Byte length of the text of an output node.
OutSize(o) == o.own + SumOut(o.nodes)
SumOut(os) == IF os = <<>> THEN 0 ELSE OutSize(Head(os)) + SumOut(Tail(os))

\* Variant with a slip: the node itself is appended, which takes it out of
\* the container it was in.
AfterMove(t, i) ==
  [ast  |-> [j \in 1..Len(t.ast) |->
               [t.ast[j] EXCEPT !.nodes = SelectSeq(@, LAMBDA x : x # i)]],
   root |-> [t.root EXCEPT !.nodes = SelectSeq(@, LAMBDA x : x # i)]]

\* node.clone() leaves the caller's tree t as it is: the clone, not the node,
\* is appended to the chunk.
AfterClone(t, i) == t

(***************************************************************************)
(* The chunk builder of Once.  b is the record of its closure variables:   *)
(* currentChunk, currentChunkSize, finalChunks, and the warnings, with the *)
(* history of the addNode calls made.                                      *)
(***************************************************************************)
NewBuilder ==
  [currentChunk |-> PostcssRoot, currentChunkSize |-> 0, finalChunks |-> <<>>,
   warnings |-> <<>>, visited |-> <<>>, threw |-> FALSE]

\* Variant with a slip: the closure variables are those of the plugin, not of
\* the call, so a call goes on from what the call before it left.
OnceStateOfPlugin(b) == b

\* The closure variables at the beginning of a call of Once, b being what the
\* call before it left: they are declared inside Once, so all are new.
OnceState(b) == NewBuilder

\* addNode is entered with node i.
Visit(b, i) == [b EXCEPT !.visited = Append(@, i)]

\* Variants with a slip: a chunk of a single node is not kept; a completed
\* chunk is put in front of the list.
StartNewChunkSkipsSingle(b) ==
  [b EXCEPT !.finalChunks = IF Len(b.currentChunk.nodes) > 1
                              THEN Append(@, b.currentChunk) ELSE @,
            !.currentChunk = PostcssRoot,
            !.currentChunkSize = 0]

\* Variant with a slip: the current chunk is kept even when it has no node.
StartNewChunkAlways(b) ==
  [b EXCEPT !.finalChunks = Append(@, b.currentChunk),
            !.currentChunk = PostcssRoot,
            !.currentChunkSize = 0]

\* Variant with a slip: the current chunk is pushed twice.
StartNewChunkPushesTwice(b) ==
  [b EXCEPT !.finalChunks = IF Len(b.currentChunk.nodes) > 0
                              THEN @ \o <<b.currentChunk, b.currentChunk>> ELSE @,
            !.currentChunk = PostcssRoot,
            !.currentChunkSize = 0]

StartNewChunkUnshift(b) ==
  [b EXCEPT !.finalChunks = IF Len(b.currentChunk.nodes) > 0
                              THEN <<b.currentChunk>> \o @ ELSE @,
            !.currentChunk = PostcssRoot,
            !.currentChunkSize = 0]

StartNewChunk(b) ==
  [b EXCEPT !.finalChunks = IF Len(b.currentChunk.nodes) > 0
                              THEN Append(@, b.currentChunk) ELSE @,
            !.currentChunk = PostcssRoot,
            !.currentChunkSize = 0]

\* Variant with a slip: a node of exactly the limit is reported too.
IsOversizeAtLimit(sz, nodeSize) == sz # 0 /\ nodeSize >= sz

\* size && nodeSize > size
IsOversize(sz, nodeSize) == sz # 0 /\ nodeSize > sz

Identifier(node) ==
  IF node.type = "rule" THEN [by |-> "selector", text |-> node.selector]
  ELSE [by |-> "@-rule", text |-> node.name]

Warn(a, sz, b, i) ==
  IF IsOversize(sz, NodeSize(a, i))
    THEN [b EXCEPT !.warnings =
            Append(@, [node |-> i, identifier |-> Identifier(a[i]),
                       nodeSize |-> NodeSize(a, i), size |-> sz])]
    ELSE b

\* Variant with a slip: an at-rule that fills the chunk exactly is split too.
MustSplitAtLimit(a, sz, b, i) ==
  /\ a[i].type = "atrule"
  /\ Len(a[i].nodes) > 0
  /\ sz # 0
  /\ b.currentChunkSize + NodeSize(a, i) >= sz

\* The at-rule would overflow the chunk if added whole.
MustSplit(a, sz, b, i) ==
  /\ a[i].type = "atrule"
  /\ Len(a[i].nodes) > 0
  /\ sz # 0
  /\ b.currentChunkSize + NodeSize(a, i) > sz

nonSplittableAtRules == {"keyframes", "font-face", "page", "counter-style"}

\* Variant with a slip: keyframes is missing from the list.
IsNonSplittableShortList(node) == node.name \in {"font-face", "page", "counter-style"}

IsNonSplittable(node) == node.name \in nonSplittableAtRules

HasActualContent(a, i) ==
  \E j \in 1..Len(a[i].nodes) :
    LET child == a[a[i].nodes[j]]
    IN  child.type = "rule" \/ (child.type = "atrule" /\ Len(child.nodes) > 0)

\* A fresh shell for every at-rule of the chain, the node innermost.
RECURSIVE NestFresh(_, _, _)
NestFresh(a, chain, o) ==
  IF chain = <<>> THEN o
  ELSE [Shell(a, Head(chain)) EXCEPT !.nodes = <<NestFresh(a, Tail(chain), o)>>]

RECURSIVE ShellSizes(_, _)
ShellSizes(a, chain) ==
  IF chain = <<>> THEN 0
  ELSE OutSize(Shell(a, Head(chain))) + ShellSizes(a, Tail(chain))

\* Variant with a slip: the sizes of the new shells are not added.
PlaceWholeShellsNotCounted(a, b, i, chain) ==
  LET b1 == IF Len(b.currentChunk.nodes) > 0 THEN StartNewChunk(b) ELSE b
  IN  [b1 EXCEPT
        !.currentChunk.nodes = Append(@, NestFresh(a, chain, Clone(a, i, "placed"))),
        !.currentChunkSize = @ + NodeSize(a, i)]

\* Variant with a slip: the current chunk is not flushed first.
PlaceWholeNoFlush(a, b, i, chain) ==
  [b EXCEPT
    !.currentChunk.nodes = Append(@, NestFresh(a, chain, Clone(a, i, "placed"))),
    !.currentChunkSize = @ + ShellSizes(a, chain) + NodeSize(a, i)]

\* The non-splittable at-rule is added whole, to a new chunk unless the current
\* one is empty.
PlaceWhole(a, b, i, chain) ==
  LET b1 == IF Len(b.currentChunk.nodes) > 0 THEN StartNewChunk(b) ELSE b
  IN  [b1 EXCEPT
        !.currentChunk.nodes = Append(@, NestFresh(a, chain, Clone(a, i, "placed"))),
        !.currentChunkSize = @ + ShellSizes(a, chain) + NodeSize(a, i)]

\* An at-rule without rules or non-empty at-rules among its children is added
\* as it is.
PlaceNoContent(a, b, i, parentShell) ==
  LET o == Clone(a, i, "placed")
      n == Len(b.currentChunk.nodes)
  IN  IF parentShell # Null /\ n > 0
        THEN [b EXCEPT !.currentChunk.nodes[n].nodes = Append(@, o),
                       !.currentChunkSize = @ + NodeSize(a, i)]
        ELSE [b EXCEPT !.currentChunk.nodes = Append(@, o),
                       !.currentChunkSize = @ + NodeSize(a, i)]

\* Variant with a slip: the params of the last node are not compared.
ExistingShellByName(os, parentAtRule) ==
  /\ Len(os) > 0
  /\ os[Len(os)].type = "atrule"
  /\ os[Len(os)].name = parentAtRule.name

\* The last node of a level is an at-rule like the one of the chain.
ExistingShell(os, parentAtRule) ==
  /\ Len(os) > 0
  /\ os[Len(os)].type = "atrule"
  /\ os[Len(os)].name = parentAtRule.name
  /\ os[Len(os)].params = parentAtRule.params

\* The nodes of a level after o is added under the chain, and the size of the
\* shells that had to be created.
RECURSIVE Rebuild(_, _, _, _)
Rebuild(a, os, chain, o) ==
  IF chain = <<>> THEN [nodes |-> Append(os, o), added |-> 0]
  ELSE IF ExistingShell(os, a[Head(chain)])
    THEN LET r == Rebuild(a, os[Len(os)].nodes, Tail(chain), o)
         IN  [nodes |-> [os EXCEPT ![Len(os)].nodes = r.nodes, ![Len(os)].body = TRUE],
              added |-> r.added]
    ELSE LET newParentShell == Shell(a, Head(chain))
             r == Rebuild(a, newParentShell.nodes, Tail(chain), o)
         IN  [nodes |-> Append(os, [newParentShell EXCEPT !.nodes = r.nodes]),
              added |-> OutSize(newParentShell) + r.added]

\* The loop over the chain throws a TypeError: it took the last node of a
\* level for the shell of that level and reads currentParent.nodes.length of
\* it for the next level, but the node is an at-rule without a `nodes` list.
RECURSIVE Throws(_, _, _)
Throws(a, os, chain) ==
  /\ chain # <<>>
  /\ ExistingShell(os, a[Head(chain)])
  /\ Tail(chain) # <<>>
  /\ \/ ~os[Len(os)].body
     \/ Throws(a, os[Len(os)].nodes, Tail(chain))

\* Variant with a slip: a node that fills the chunk exactly starts a new one.
PlaceNormalFlushAtLimit(a, sz, b, i, chain) ==
  LET b1 == IF sz # 0 /\ b.currentChunkSize + NodeSize(a, i) >= sz
                      /\ Len(b.currentChunk.nodes) > 0
              THEN StartNewChunk(b) ELSE b
      r  == Rebuild(a, b1.currentChunk.nodes, chain, Clone(a, i, "placed"))
  IN  IF Throws(a, b1.currentChunk.nodes, chain) THEN [b1 EXCEPT !.threw = TRUE]
      ELSE [b1 EXCEPT !.currentChunk.nodes = r.nodes,
                      !.currentChunkSize = @ + r.added + NodeSize(a, i)]

\* Normal flow: a new chunk if the node would overflow a chunk that is not
\* empty, then the node is added under the shells of its chain.
PlaceNormal(a, sz, b, i, chain) ==
  LET b1 == IF sz # 0 /\ b.currentChunkSize + NodeSize(a, i) > sz
                      /\ Len(b.currentChunk.nodes) > 0
              THEN StartNewChunk(b) ELSE b
      r  == Rebuild(a, b1.currentChunk.nodes, chain, Clone(a, i, "placed"))
  IN  IF Throws(a, b1.currentChunk.nodes, chain) THEN [b1 EXCEPT !.threw = TRUE]
      ELSE [b1 EXCEPT !.currentChunk.nodes = r.nodes,
                      !.currentChunkSize = @ + r.added + NodeSize(a, i)]

\* addNode(node, parentShell, parentChain), with the calls it makes for the
\* children of an at-rule it splits.
RECURSIVE AddNode(_, _, _, _, _, _), AddNodes(_, _, _, _, _, _)
AddNode(a, sz, b, i, parentShell, parentChain) ==
  LET b1 == Warn(a, sz, Visit(b, i), i)
  IN  IF b.threw THEN b
      ELSE IF MustSplit(a, sz, b1, i)
        THEN IF IsNonSplittable(a[i]) THEN PlaceWhole(a, b1, i, parentChain)
             ELSE IF ~HasActualContent(a, i) THEN PlaceNoContent(a, b1, i, parentShell)
             ELSE AddNodes(a, sz, b1, a[i].nodes, parentShell, Append(parentChain, i))
        ELSE PlaceNormal(a, sz, b1, i, parentChain)
AddNodes(a, sz, b, ids, parentShell, parentChain) ==
  IF ids = <<>> THEN b
  ELSE AddNodes(a, sz, AddNode(a, sz, b, Head(ids), parentShell, parentChain),
                Tail(ids), parentShell, parentChain)

\* root.nodes.forEach(...) and the last startNewChunk, from the closure
\* variables b; nothing is done after an exception.
Traverse(a, top, sz, b) ==
  LET r == AddNodes(a, sz, b, top, Null, <<>>)
  IN  IF r.threw THEN r ELSE StartNewChunk(r)

\* The chunks and warnings of a whole run of Once on the top-level nodes `top`.
Run(a, top, sz) == Traverse(a, top, sz, NewBuilder)

(***************************************************************************)
(* Once, step by step: one action for each call of addNode.                *)
(***************************************************************************)
Builder ==
  [currentChunk |-> currentChunk, currentChunkSize |-> currentChunkSize,
   finalChunks |-> finalChunks, warnings |-> warnings, visited |-> visited,
   threw |-> pc = "aborted"]

SetBuilder(b) ==
  /\ currentChunk' = b.currentChunk
  /\ currentChunkSize' = b.currentChunkSize
  /\ finalChunks' = b.finalChunks
  /\ warnings' = b.warnings
  /\ visited' = b.visited

Frames(ids, parentShell, parentChain) ==
  [j \in 1..Len(ids) |->
     [node |-> ids[j], parentShell |-> parentShell, parentChain |-> parentChain]]

Cloned(i) ==
  LET t == AfterClone([ast |-> ast, root |-> root], i)
  IN  ast' = t.ast /\ root' = t.root

\* Once is called with the parsed root: root.nodes.forEach(...) begins.  The
\* top-level calls leave parentShell out and the recursive ones pass it on, so
\* it is null in every call.
OnceStart ==
  /\ pc = "parsing"
  /\ pc' = "running"
  /\ SetBuilder(OnceState(Builder))
  /\ work' = Frames(root.nodes, Null, <<>>)
  /\ UNCHANGED <<ast, root, parsed, size, previous>>

\* addNode on a non-splittable at-rule that would overflow the chunk.
AddNodeWhole ==
  /\ pc = "running" /\ work # <<>>
  /\ LET f == Head(work)
         b == Warn(ast, size, Visit(Builder, f.node), f.node)
     IN  /\ MustSplit(ast, size, b, f.node)
         /\ IsNonSplittable(ast[f.node])
         /\ SetBuilder(PlaceWhole(ast, b, f.node, f.parentChain))
         /\ Cloned(f.node)
  /\ work' = Tail(work)
  /\ UNCHANGED <<parsed, size, previous, pc>>

\* addNode on an overflowing at-rule with nothing to split.
AddNodeNoContent ==
  /\ pc = "running" /\ work # <<>>
  /\ LET f == Head(work)
         b == Warn(ast, size, Visit(Builder, f.node), f.node)
     IN  /\ MustSplit(ast, size, b, f.node)
         /\ ~IsNonSplittable(ast[f.node])
         /\ ~HasActualContent(ast, f.node)
         /\ SetBuilder(PlaceNoContent(ast, b, f.node, f.parentShell))
         /\ Cloned(f.node)
  /\ work' = Tail(work)
  /\ UNCHANGED <<parsed, size, previous, pc>>

\* addNode on an overflowing at-rule that is split: its children are next.
AddNodeSplit ==
  /\ pc = "running" /\ work # <<>>
  /\ LET f == Head(work)
         b == Warn(ast, size, Visit(Builder, f.node), f.node)
     IN  /\ MustSplit(ast, size, b, f.node)
         /\ ~IsNonSplittable(ast[f.node])
         /\ HasActualContent(ast, f.node)
         /\ SetBuilder(b)
         /\ work' = Frames(ast[f.node].nodes, f.parentShell,
                           Append(f.parentChain, f.node)) \o Tail(work)
  /\ UNCHANGED <<ast, root, parsed, size, previous, pc>>

\* addNode, normal flow, ends with an exception, which ends Once: no chunks
\* are handed over and the root is left as it is.
AddNodeThrows ==
  /\ pc = "running" /\ work # <<>>
  /\ LET f == Head(work)
         b == Warn(ast, size, Visit(Builder, f.node), f.node)
     IN  /\ ~MustSplit(ast, size, b, f.node)
         /\ PlaceNormal(ast, size, b, f.node, f.parentChain).threw
         /\ SetBuilder(PlaceNormal(ast, size, b, f.node, f.parentChain))
  /\ pc' = "aborted"
  /\ UNCHANGED <<ast, root, parsed, size, work, previous>>

\* addNode, normal flow.
AddNodeNormal ==
  /\ pc = "running" /\ work # <<>>
  /\ LET f == Head(work)
         b == Warn(ast, size, Visit(Builder, f.node), f.node)
     IN  /\ ~MustSplit(ast, size, b, f.node)
         /\ ~PlaceNormal(ast, size, b, f.node, f.parentChain).threw
         /\ SetBuilder(PlaceNormal(ast, size, b, f.node, f.parentChain))
         /\ Cloned(f.node)
  /\ work' = Tail(work)
  /\ UNCHANGED <<parsed, size, previous, pc>>

\* Variant with a slip: the last chunk is kept without asking whether it has
\* nodes.
OnceEndKeepsLast ==
  /\ pc = "running" /\ work = <<>>
  /\ pc' = "done"
  /\ SetBuilder([Builder EXCEPT !.finalChunks = Append(@, currentChunk),
                                !.currentChunk = PostcssRoot,
                                !.currentChunkSize = 0])
  /\ root' = [root EXCEPT !.nodes = <<>>]
  /\ UNCHANGED <<ast, parsed, size, work, previous>>

\* Variant with a slip: the root is left as it was.
OnceEndKeepsRoot ==
  /\ pc = "running" /\ work = <<>>
  /\ pc' = "done"
  /\ SetBuilder(StartNewChunk(Builder))
  /\ UNCHANGED <<ast, root, parsed, size, work, previous>>

\* After the last node: the last chunk is kept and the root is emptied.
OnceEnd ==
  /\ pc = "running" /\ work = <<>>
  /\ pc' = "done"
  /\ SetBuilder(StartNewChunk(Builder))
  /\ root' = [root EXCEPT !.nodes = <<>>]
  /\ UNCHANGED <<ast, parsed, size, work, previous>>

\* The same plugin instance is given the same stylesheet again, parsed anew:
\* a whole call of Once, which ends with the new root emptied.
OnceAgain ==
  /\ pc = "done" /\ previous = <<>>
  /\ previous' = <<[chunks |-> finalChunks, warnings |-> warnings]>>
  /\ LET r == Traverse(ast, parsed, size, OnceState(Builder))
     IN  /\ SetBuilder(r)
         /\ pc' = IF r.threw THEN "aborted" ELSE "done"
  /\ UNCHANGED <<ast, root, parsed, size, work>>

Next ==
  \/ ParseNode
  \/ OnceStart
  \/ AddNodeWhole
  \/ AddNodeNoContent
  \/ AddNodeSplit
  \/ AddNodeNormal
  \/ AddNodeThrows
  \/ OnceEnd
  \/ OnceAgain

Spec == Init /\ [][Next]_vars

\* The step-by-step run ends where the recursive one does.
StepsAgreeWithRun ==
  pc \in {"done", "aborted"} =>
    LET r == Run(ast, parsed, size)
    IN  /\ finalChunks = r.finalChunks /\ warnings = r.warnings
        /\ visited = r.visited /\ r.threw = (pc = "aborted")

(***************************************************************************)
(* Reading the output.                                                     *)
(***************************************************************************)
RECURSIVE Flatten(_)
\* The output nodes of a list of trees, in tree order.
Flatten(os) ==
  IF os = <<>> THEN <<>>
  ELSE <<Head(os)>> \o Flatten(Head(os).nodes) \o Flatten(Tail(os))

RECURSIVE FlattenChunks(_)
FlattenChunks(cs) ==
  IF cs = <<>> THEN <<>> ELSE Flatten(Head(cs).nodes) \o FlattenChunks(Tail(cs))

\* Every output node of the completed chunks, chunk after chunk.
Output == FlattenChunks(finalChunks)

\* The same with the chunk under construction at the end.
OutputSoFar == FlattenChunks(Append(finalChunks, currentChunk))

\* The positions of `out` that hold a copy of input node i in one of the roles.
Copies(out, i, roles) ==
  { k \in 1..Len(out) : out[k].source = i /\ out[k].role \in roles }

\* The output node is the whole input node, children and all.
Intact(o) == o = Clone(ast, o.source, o.role)

ChunkSize(c) == SumOut(c.nodes)

\* The nodes addNode appended to a chunk, shells and copied descendants aside.
PlacedIn(c) == SelectSeq(Flatten(c.nodes), LAMBDA o : o.role = "placed")

RECURSIVE Descendants(_, _)
Descendants(a, ids) ==
  IF ids = <<>> THEN {}
  ELSE {Head(ids)} \cup Descendants(a, a[Head(ids)].nodes) \cup Descendants(a, Tail(ids))

Range(f) == { f[k] : k \in DOMAIN f }

StrictlyIncreasing(q) == \A k \in 1..(Len(q) - 1) : q[k] < q[k + 1]

\* A conditional at-rule that addNode may split.
Splittable(i) ==
  ast[i].type = "atrule" /\ ~IsNonSplittable(ast[i]) /\ HasActualContent(ast, i)

(***************************************************************************)
(* C1. Lossless placement: when the run is over, every input node has      *)
(* exactly one copy that is not a shell, in one chunk, unless it is a      *)
(* conditional at-rule that was visited and split, which has none; every   *)
(* visited node was either appended once or split; whatever the warnings.  *)
(***************************************************************************)
C1_Lossless ==
  pc = "done" =>
    /\ \A i \in 1..Len(ast) :
         \/ Cardinality(Copies(Output, i, {"placed", "inner"})) = 1
         \/ /\ Copies(Output, i, {"placed", "inner"}) = {}
            /\ Splittable(i)
            /\ i \in Range(visited)
    /\ \A i \in Range(visited) :
         Cardinality(Copies(Output, i, {"placed"})) = 1
           \/ Copies(Output, i, {"placed", "inner"}) = {}
    /\ \A k \in 1..Len(Output) :
         Output[k].role = "placed" => Output[k].source \in Range(visited)

\* A run with warnings that split an at-rule over two chunks.
C1_Witness ==
  /\ pc = "done"
  /\ Len(finalChunks) >= 2
  /\ warnings # <<>>
  /\ \E i \in 1..Len(ast) : Cardinality(Copies(Output, i, {"shell"})) >= 2

(***************************************************************************)
(* C2. Atomicity: an at-rule named keyframes, font-face, page or           *)
(* counter-style is never on a parent chain (addNode never recurses into   *)
(* it), and when the run is over it has one copy, intact, and each of its  *)
(* descendants has one copy, which is therefore the one inside it.         *)
(***************************************************************************)
C2_Atomicity ==
  /\ \A k \in 1..Len(work) : \A c \in Range(work[k].parentChain) :
       ~(ast[c].name \in {"keyframes", "font-face", "page", "counter-style"})
  /\ pc = "done" =>
       \A i \in 1..Len(ast) :
         (ast[i].type = "atrule"
            /\ ast[i].name \in {"keyframes", "font-face", "page", "counter-style"}) =>
           /\ Cardinality(Copies(Output, i, {"placed", "inner", "shell"})) = 1
           /\ \A k \in Copies(Output, i, {"placed", "inner", "shell"}) : Intact(Output[k])
           /\ \A j \in Descendants(ast, ast[i].nodes) :
                /\ Cardinality(Copies(Output, j, {"placed", "inner", "shell"})) = 1
                /\ j \notin Range(visited)

\* A limit of 1 and an at-rule of the four with children, added whole with a
\* warning after a flush.
C2_Witness ==
  /\ pc = "done"
  /\ size = 1
  /\ Len(finalChunks) >= 2
  /\ \E k \in 1..Len(warnings) :
       /\ IsNonSplittable(ast[warnings[k].node])
       /\ ast[warnings[k].node].nodes # <<>>
       /\ warnings[k].node > 1

(***************************************************************************)
(* C3. Budget respect: the size of every completed chunk is at most the    *)
(* limit, unless the chunk holds a single unit whose own size exceeds the  *)
(* limit: a single appended node, or a single top-level node.              *)
(***************************************************************************)
C3_BudgetRespect ==
  \A k \in 1..Len(finalChunks) :
    \/ ChunkSize(finalChunks[k]) <= size
    \/ /\ Len(PlacedIn(finalChunks[k])) = 1
       /\ OutSize(PlacedIn(finalChunks[k])[1]) > size
    \/ Len(finalChunks[k].nodes) = 1

(***************************************************************************)
(* C4. Order preservation: the copies of input nodes, read chunk after     *)
(* chunk and in tree order inside a chunk, shells aside, are in document   *)
(* order; this holds at every step, the chunk under construction last.     *)
(***************************************************************************)
C4_OrderPreserved ==
  LET copies == SelectSeq(OutputSoFar, LAMBDA o : o.role # "shell")
  IN  StrictlyIncreasing([k \in 1..Len(copies) |-> copies[k].source])

\* Two chunks, the first with a node under a rebuilt shell after another node
\* of the chunk.
C4_Witness ==
  /\ pc = "done"
  /\ Len(finalChunks) >= 2
  /\ \E j \in 2..Len(finalChunks[1].nodes) :
       /\ finalChunks[1].nodes[j].role = "shell"
       /\ finalChunks[1].nodes[j].nodes # <<>>

(***************************************************************************)
(* C5. No-split idempotence, as claimed: an input whose total size is at   *)
(* most the limit gives exactly one chunk, holding every top-level node as *)
(* an intact clone in the original order.                                  *)
(***************************************************************************)
WholeInput == [nodes |-> [j \in 1..Len(parsed) |-> Clone(ast, parsed[j], "placed")]]

C5_NoSplitAsClaimed ==
  (pc = "done" /\ SumSizes(ast, parsed) <= size) => finalChunks = <<WholeInput>>

(***************************************************************************)
(* C5, amended: an input that is not empty and whose total size is at most *)
(* the limit gives exactly one chunk, holding every top-level node as an   *)
(* intact clone in the original order.                                     *)
(***************************************************************************)
C5_NoSplit ==
  (pc = "done" /\ parsed # <<>> /\ SumSizes(ast, parsed) <= size) =>
    finalChunks = <<WholeInput>>

\* An input of several top-level nodes, an at-rule with children among them,
\* that just fits the limit.
C5_Witness ==
  /\ pc = "done"
  /\ Len(parsed) >= 2
  /\ SumSizes(ast, parsed) = size
  /\ \E j \in 1..Len(parsed) : ast[parsed[j]].nodes # <<>>
  /\ Len(finalChunks) = 1

(***************************************************************************)
(* C6. Monotonic chunk count: the run made with the limit `size` gives at  *)
(* least as many chunks as a run on the same input with any larger limit.  *)
(***************************************************************************)
C6_Monotonic ==
  pc = "done" =>
    \A L \in Limits :
      size < L => Len(finalChunks) >= Len(Run(ast, parsed, L).finalChunks)

(***************************************************************************)
(* C7. A limit of 0 forces splitting: with size = 0 an input of n >= 2     *)
(* top-level rules gives n chunks.                                         *)
(***************************************************************************)
C7_ZeroForcesSplit ==
  (/\ pc = "done"
   /\ size = 0
   /\ Len(parsed) >= 2
   /\ \A j \in 1..Len(parsed) : ast[parsed[j]].type = "rule")
    => Len(finalChunks) = Len(parsed)

(***************************************************************************)
(* C8. Input left unchanged, as claimed: after the run the root lists the  *)
(* top-level nodes it listed before the run.                               *)
(***************************************************************************)
C8_InputUnchangedAsClaimed == pc = "done" => root.nodes = parsed

(***************************************************************************)
(* C8, amended: while addNode runs the caller's tree stays as it is (the   *)
(* root's list of top-level nodes and the children of every node), only    *)
(* clones being inserted into chunks; the end of the run empties the       *)
(* root's list and leaves the children of every node as they are.          *)
(***************************************************************************)
C8_InputUnchangedUntilEnd ==
  [][pc = "running" =>
       /\ ast' = ast
       /\ pc' = "running" => root' = root
       /\ pc' = "done" => root'.nodes = <<>>]_vars

\* A finished run that appended clones of at-rules with children and of
\* nodes inside a split at-rule.
C8_Witness ==
  /\ pc = "done"
  /\ root.nodes = <<>>
  /\ \E k \in 1..Len(Output) : Output[k].role = "placed" /\ Output[k].nodes # <<>>
  /\ \E k \in 1..Len(Output) : Output[k].role = "shell"

(***************************************************************************)
(* C9. An oversize unit is placed whole: every node a warning was emitted  *)
(* for has exactly one copy in the chunks, which is the intact clone.      *)
(***************************************************************************)
C9_WarnedPlacedWhole ==
  pc = "done" =>
    \A k \in 1..Len(warnings) :
      /\ Cardinality(Copies(Output, warnings[k].node, {"placed", "inner", "shell"})) = 1
      /\ \A c \in Copies(Output, warnings[k].node, {"placed", "inner", "shell"}) :
           Output[c].role = "placed" /\ Intact(Output[c])

(***************************************************************************)
(* C10. Warning count: for a positive limit the warnings are, in order,    *)
(* one for each visited node whose size is greater than the limit and none *)
(* for any other; no node copied inside a unit that was added whole is     *)
(* visited or warned about.                                                *)
(***************************************************************************)
C10_WarningCount ==
  size > 0 =>
    /\ [k \in 1..Len(warnings) |-> warnings[k].node]
         = SelectSeq(visited, LAMBDA i : NodeSize(ast, i) > size)
    /\ \A k \in 1..Len(OutputSoFar) :
         OutputSoFar[k].role = "inner" => OutputSoFar[k].source \notin Range(visited)

\* An oversize at-rule of the four, added whole with one warning, one of its
\* children oversize too; another visited node fits the limit exactly.
C10_Witness ==
  /\ pc = "done"
  /\ size > 0
  /\ Len(warnings) = 1
  /\ IsNonSplittable(ast[warnings[1].node])
  /\ \E j \in Range(ast[warnings[1].node].nodes) : NodeSize(ast, j) > size
  /\ \E i \in Range(visited) : NodeSize(ast, i) = size

(***************************************************************************)
(* Reading the nesting.                                                    *)
(***************************************************************************)
RECURSIVE WithAncestors(_, _)
\* The output nodes of a list of trees in tree order, each with the output
\* nodes it is nested in, outermost first; anc are those of the list itself.
WithAncestors(os, anc) ==
  IF os = <<>> THEN <<>>
  ELSE <<[node |-> Head(os), ancestors |-> anc]>>
         \o WithAncestors(Head(os).nodes, Append(anc, Head(os)))
         \o WithAncestors(Tail(os), anc)

RECURSIVE NestingOfChunks(_)
NestingOfChunks(cs) ==
  IF cs = <<>> THEN <<>>
  ELSE WithAncestors(Head(cs).nodes, <<>>) \o NestingOfChunks(Tail(cs))

NestingSoFar == NestingOfChunks(Append(finalChunks, currentChunk))

RECURSIVE InputAncestors(_, _)
\* The at-rules input node i is nested in, outermost first.
InputAncestors(a, i) ==
  LET ps == { p \in 1..Len(a) : i \in Range(a[p].nodes) }
  IN  IF ps = {} THEN <<>>
      ELSE LET p == CHOOSE q \in ps : TRUE IN Append(InputAncestors(a, p), p)

(***************************************************************************)
(* C11. Nesting context of rules: a rule that addNode appended while the   *)
(* at-rules p1..pn were open is nested, in its chunk, in exactly n         *)
(* at-rules, which have the names and params of p1..pn in that order; in   *)
(* every chunk, at every step.                                             *)
(***************************************************************************)
C11_RuleContextRebuilt ==
  \A k \in 1..Len(NestingSoFar) :
    LET e == NestingSoFar[k]
        ps == InputAncestors(ast, e.node.source)
    IN  (e.node.role = "placed" /\ e.node.type = "rule") =>
          /\ Len(e.ancestors) = Len(ps)
          /\ \A j \in 1..Len(ps) :
               /\ e.ancestors[j].type = "atrule"
               /\ e.ancestors[j].name = ast[ps[j]].name
               /\ e.ancestors[j].params = ast[ps[j]].params

\* Two rules of an at-rule inside an at-rule, each in a chunk of its own
\* under both shells.
C11_Witness ==
  /\ pc = "done"
  /\ Len(finalChunks) >= 2
  /\ \A c \in 1..2 :
       \E k \in 1..Len(WithAncestors(finalChunks[c].nodes, <<>>)) :
         LET e == WithAncestors(finalChunks[c].nodes, <<>>)[k]
         IN  e.node.role = "placed" /\ e.node.type = "rule" /\ Len(e.ancestors) = 2

C13_NoEmptyChunk ==
  \A k \in 1..Len(finalChunks) : PlacedIn(finalChunks[k]) # <<>>

\* Several chunks, one of them a single tree under a shell.
C13_Witness ==
  /\ pc = "done"
  /\ Len(finalChunks) >= 2
  /\ \E k \in 1..Len(finalChunks) :
       /\ Len(finalChunks[k].nodes) = 1
       /\ finalChunks[k].nodes[1].role = "shell"

(***************************************************************************)
(* C14. Empty input: a run on a root without nodes ends with no chunk and  *)
(* no warning, whatever the limit.                                         *)
(***************************************************************************)
C14_EmptyInput ==
  (pc = "done" /\ parsed = <<>>) => (finalChunks = <<>> /\ warnings = <<>>)

C14_Witness == pc = "done" /\ parsed = <<>> /\ size > 0

\* The output nodes that were appended as units.
PlacedOutput == SelectSeq(Output, LAMBDA o : o.role = "placed")

(***************************************************************************)
(* C16. Chunk count: at every step the result list has at most as many     *)
(* chunks as nodes were placed in it, and no more than addNode was called; *)
(* an input of n top-level rules ends with at most n chunks.               *)
(***************************************************************************)
C16_ChunkCount ==
  /\ Len(finalChunks) <= Len(PlacedOutput)
  /\ Len(finalChunks) <= Len(visited)
  /\ (\A j \in 1..Len(parsed) : ast[parsed[j]].type = "rule")
       => Len(finalChunks) <= Len(parsed)

\* Three rules or more, each in a chunk of its own.
C16_Witness ==
  /\ pc = "done"
  /\ Len(parsed) >= 3
  /\ \A j \in 1..Len(parsed) : ast[parsed[j]].type = "rule"
  /\ Len(finalChunks) = Len(parsed)

C17_LimitInclusive ==
  [][ /\ (pc = "running" /\ work # <<>>) =>
           LET i == Head(work).node
           IN  /\ NodeSize(ast, i) = size => warnings' = warnings
               /\ currentChunkSize + NodeSize(ast, i) = size =>
                    /\ finalChunks' = finalChunks
                    /\ work' = Tail(work)
                    /\ Copies(Flatten(currentChunk'.nodes), i, {"placed"}) # {}
                    /\ Len(Flatten(currentChunk'.nodes)) > Len(Flatten(currentChunk.nodes))
      /\ (pc = "running" /\ pc' = "done" /\ Len(parsed) = 1
            /\ NodeSize(ast, parsed[1]) = size) =>
           finalChunks' = <<WholeInput>> ]_vars

RECURSIVE SumChunks(_)
\* The sizes of the chunks of a list, added up.
SumChunks(cs) == IF cs = <<>> THEN 0 ELSE ChunkSize(Head(cs)) + SumChunks(Tail(cs))

(***************************************************************************)
(* C18. Total size preserved: at the end of a run the sizes of the chunks  *)
(* add up to the size of the top-level nodes of the input; splitting has   *)
(* neither lost nor added bytes.                                           *)
(***************************************************************************)
C18_TotalSizePreserved ==
  pc = "done" => SumChunks(finalChunks) = SumSizes(ast, parsed)

(***************************************************************************)
(* C19. Termination with a final flush: no run is ended by an exception,   *)
(* addNode is called with each node at most once, and at the end of a run  *)
(* the current chunk has been flushed: nothing is left in it and every     *)
(* node that was appended is in a chunk of the result list.                *)
(***************************************************************************)
C19_TerminatesFlushed ==
  /\ pc # "aborted"
  /\ \A j, k \in 1..Len(visited) : visited[j] = visited[k] => j = k
  /\ pc = "done" =>
       /\ currentChunk.nodes = <<>>
       /\ currentChunkSize = 0
       /\ \A i \in 1..Len(ast) :
            Copies(OutputSoFar, i, {"placed"}) \subseteq 1..Len(Output)

(***************************************************************************)
(* C20. Flush before overflow: whenever a call of addNode appends its node *)
(* as a unit to a current chunk that has nodes already, completing no      *)
(* chunk, the running size before the call plus the size of the node is    *)
(* within the limit.  Stated for limits above 0; with size = 0 nothing is  *)
(* ever flushed (C7).                                                      *)
(***************************************************************************)
C20_FlushBeforeOverflow ==
  [][ (/\ pc = "running" /\ pc' = "running" /\ work # <<>>
       /\ size > 0
       /\ currentChunk.nodes # <<>>
       /\ finalChunks' = finalChunks
       /\ Copies(Flatten(currentChunk'.nodes), Head(work).node, {"placed"}) # {})
      => currentChunkSize + NodeSize(ast, Head(work).node) <= size ]_vars

(***************************************************************************)
(* C21. A conditional at-rule with children but no rule and no non-empty   *)
(* at-rule among them, reached inside at-rules that are being split, is in *)
(* its chunk as one unit nested in at-rules with the names and params of   *)
(* its parent chain, in order; it is not at the root of the chunk.         *)
(***************************************************************************)
C21_NoContentInsideChain ==
  \A k \in 1..Len(NestingSoFar) :
    LET e == NestingSoFar[k]
        i == e.node.source
        ps == InputAncestors(ast, i)
    IN  (/\ e.node.role = "placed" /\ e.node.type = "atrule"
         /\ ~IsNonSplittable(ast[i])
         /\ Len(ast[i].nodes) > 0 /\ ~HasActualContent(ast, i)) =>
          /\ Intact(e.node)
          /\ Len(e.ancestors) = Len(ps)
          /\ \A j \in 1..Len(ps) :
               /\ e.ancestors[j].type = "atrule"
               /\ e.ancestors[j].name = ast[ps[j]].name
               /\ e.ancestors[j].params = ast[ps[j]].params

RECURSIVE SumOwn(_)
\* The bytes of the nodes of a list themselves, children not counted.
SumOwn(os) == IF os = <<>> THEN 0 ELSE Head(os).own + SumOwn(Tail(os))

\* The bytes of the shells that were created in chunk c.
ShellBytes(c) == SumOwn(SelectSeq(Flatten(c.nodes), LAMBDA o : o.role = "shell"))

(***************************************************************************)
(* C22. Bounded overshoot: a completed chunk is larger than the limit only *)
(* if its one placed node is itself larger than the limit, or if it is     *)
(* over the limit by no more than the bytes of the shells created in it.   *)
(* Stated for limits above 0; with size = 0 nothing is ever flushed (C7).  *)
(***************************************************************************)
C22_BoundedOvershoot ==
  size > 0 =>
    \A k \in 1..Len(finalChunks) :
      LET c == finalChunks[k]
          placed == PlacedIn(c)
      IN  ChunkSize(c) > size =>
            \/ Len(placed) = 1 /\ NodeSize(ast, placed[1].source) > size
            \/ ChunkSize(c) - size <= ShellBytes(c)

(***************************************************************************)
(* C23. Deciding to split has no effect by itself: a call of addNode on a  *)
(* conditional at-rule with real content that would overflow the chunk     *)
(* leaves the current chunk, the running size and the result list as they  *)
(* are and goes on with the children; and a first child that fits is then  *)
(* appended to the current chunk, no chunk being completed before it.      *)
(***************************************************************************)
C23_SplitHasNoEffect ==
  [][ (pc = "running" /\ work # <<>>) =>
        LET i == Head(work).node
            chain == Head(work).parentChain
        IN  /\ (/\ ast[i].type = "atrule"
                /\ ~(ast[i].name \in nonSplittableAtRules)
                /\ HasActualContent(ast, i)
                /\ size # 0
                /\ currentChunkSize + NodeSize(ast, i) > size) =>
                 /\ currentChunk' = currentChunk
                 /\ currentChunkSize' = currentChunkSize
                 /\ finalChunks' = finalChunks
                 /\ work' = Frames(ast[i].nodes, Null, Append(chain, i)) \o Tail(work)
            /\ (/\ chain # <<>>
                /\ ast[chain[Len(chain)]].nodes[1] = i
                /\ currentChunkSize + NodeSize(ast, i) <= size) =>
                 /\ finalChunks' = finalChunks
                 /\ Copies(Flatten(currentChunk'.nodes), i, {"placed"}) # {} ]_vars

\* The last node of the list os is an at-rule with the name and params of p.
LastMatches(os, p) ==
  /\ os # <<>>
  /\ os[Len(os)].type = "atrule"
  /\ os[Len(os)].name = p.name
  /\ os[Len(os)].params = p.params

RECURSIVE LevelsBefore(_, _)
\* For each at-rule of the chain, the list of nodes the loop looks at for it:
\* the chunk's for the first, then the children of the last node if it
\* matches, and none under a shell that is yet to be created.
LevelsBefore(os, chain) ==
  IF chain = <<>> THEN <<>>
  ELSE <<os>> \o LevelsBefore(IF LastMatches(os, ast[Head(chain)])
                                THEN os[Len(os)].nodes ELSE <<>>, Tail(chain))

RECURSIVE SumSizesOwn(_, _)
\* The bytes of the at-rules ids themselves, as shells.
SumSizesOwn(a, ids) ==
  IF ids = <<>> THEN 0 ELSE a[Head(ids)].own + SumSizesOwn(a, Tail(ids))

(***************************************************************************)
(* C24. Shell reuse: a call of addNode that does not split, for a node     *)
(* reached inside split at-rules, attaches the node under one at-rule per  *)
(* level of its chain; at a level whose last node is an at-rule with the   *)
(* name and params of the chain's at-rule that node is the parent, no      *)
(* shell is created and the running size is not raised for the level; at   *)
(* any other level a new shell is created and its size is added.           *)
(***************************************************************************)
C24_ShellReuse ==
  [][ (/\ pc = "running" /\ work # <<>>
       /\ Head(work).parentChain # <<>>
       /\ ~(/\ ast[Head(work).node].type = "atrule"
            /\ Len(ast[Head(work).node].nodes) > 0
            /\ size # 0
            /\ currentChunkSize + NodeSize(ast, Head(work).node) > size)) =>
        LET i == Head(work).node
            chain == Head(work).parentChain
            flushed == finalChunks' # finalChunks
            before == IF flushed THEN <<>> ELSE currentChunk.nodes
            levels == LevelsBefore(before, chain)
            new == { j \in 1..Len(chain) : ~LastMatches(levels[j], ast[chain[j]]) }
            after == WithAncestors(currentChunk'.nodes, <<>>)
        IN  \E k \in 1..Len(after) :
              /\ after[k].node.source = i /\ after[k].node.role = "placed"
              /\ Len(after[k].ancestors) = Len(chain)
              /\ \A j \in 1..Len(chain) :
                   LET anc == after[k].ancestors[j]
                       was == levels[j]
                   IN  IF j \in new
                         THEN /\ anc.role = "shell" /\ anc.source = chain[j]
                              /\ Len(anc.nodes) = 1
                         ELSE /\ anc.source = was[Len(was)].source
                              /\ anc.role = was[Len(was)].role
                              /\ Len(anc.nodes) = Len(was[Len(was)].nodes)
                                   + (IF j = Len(chain) \/ (j + 1) \in new THEN 1 ELSE 0)
              /\ Len(after) = Len(Flatten(before)) + Cardinality(new)
                                + Len(Flatten(<<after[k].node>>))
              /\ currentChunkSize' = (IF flushed THEN 0 ELSE currentChunkSize)
                                       + NodeSize(ast, i)
                                       + SumSizesOwn(ast, SelectSeq(chain, LAMBDA c :
                                           \E j \in new : chain[j] = c)) ]_vars

RECURSIVE SumPlaced(_)
\* The sizes, as addNode computed them, of the placed nodes of a list.
SumPlaced(os) ==
  IF os = <<>> THEN 0 ELSE NodeSize(ast, Head(os).source) + SumPlaced(Tail(os))

(***************************************************************************)
(* C25. Size accounting: at every step the running size is the sum of the  *)
(* sizes of the nodes appended to the current chunk and of the shells      *)
(* created in it; it is 0 exactly when the current chunk has no node, as   *)
(* after every flush.                                                      *)
(***************************************************************************)
C25_SizeAccounting ==
  /\ currentChunkSize = SumPlaced(PlacedIn(currentChunk)) + ShellBytes(currentChunk)
  /\ currentChunkSize = 0 <=> currentChunk.nodes = <<>>

\* After a flush: a chunk with a shell and two placed nodes.
C25_Witness ==
  /\ pc = "running"
  /\ finalChunks # <<>>
  /\ ShellBytes(currentChunk) > 0
  /\ Len(PlacedIn(currentChunk)) >= 2

(***************************************************************************)
(* C26. Every warning identifies its node: whatever the type of the node,  *)
(* the warning carries an identifier that is defined, the selector for a   *)
(* rule and the name for an at-rule, with the size of the node and the     *)
(* limit.                                                                  *)
(***************************************************************************)
C26_WarningIdentifies ==
  \A k \in 1..Len(warnings) :
    LET w == warnings[k]
        node == ast[w.node]
    IN  /\ w.identifier.text # "undefined"
        /\ node.type = "rule" => w.identifier.text = node.selector
        /\ node.type = "atrule" => w.identifier.text = node.name
        /\ w.nodeSize = NodeSize(ast, w.node)
        /\ w.size = size

(***************************************************************************)
(* C27. After a run the root is empty: when Once has produced the chunks   *)
(* the root it was given has no node left, and the content of a root that  *)
(* had nodes is in the chunks only.                                        *)
(***************************************************************************)
C27_RootEmptied ==
  pc = "done" =>
    /\ root.nodes = <<>>
    /\ parsed # <<>> => finalChunks # <<>>

\* A run on several top-level nodes that ended with several chunks.
C27_Witness ==
  /\ pc = "done"
  /\ Len(parsed) >= 2
  /\ Len(finalChunks) >= 2
  /\ root.nodes = <<>>

(***************************************************************************)
(* C28. No unnecessary flush: a call of addNode that ends a chunk finds    *)
(* the chunk with nodes in it and a node that does not fit: the running    *)
(* size of the chunk that is ended plus the size of the node is strictly   *)
(* greater than a positive limit, and that node is the first one placed    *)
(* in the chunk that follows.                                              *)
(***************************************************************************)
C28_FlushOnlyOnOverflow ==
  [][(pc = "running" /\ pc' # "done" /\ finalChunks' # finalChunks) =>
       /\ work # <<>>
       /\ finalChunks' = Append(finalChunks, currentChunk)
       /\ currentChunk.nodes # <<>>
       /\ size > 0
       /\ currentChunkSize + NodeSize(ast, Head(work).node) > size
       /\ Len(PlacedIn(currentChunk')) = 1
       /\ PlacedIn(currentChunk')[1].source = Head(work).node]_vars

\* A chunk was ended by a node that did not fit, which is now alone in the
\* chunk that follows, while the chunk that was ended was not full.
C28_Witness ==
  /\ pc = "running"
  /\ finalChunks # <<>>
  /\ ChunkSize(finalChunks[Len(finalChunks)]) < size
  /\ Len(PlacedIn(currentChunk)) = 1
  /\ ChunkSize(finalChunks[Len(finalChunks)])
       + NodeSize(ast, PlacedIn(currentChunk)[1].source) > size

(***************************************************************************)
(* C29. A conditional at-rule is split only on overflow: a call of addNode *)
(* on an at-rule with children goes on with the children only if the       *)
(* limit is positive, running size + size of the at-rule is strictly       *)
(* greater than the limit and one of the children is a rule or an at-rule  *)
(* that has children; and if the at-rule fits in the current chunk, the    *)
(* call appends one clone of it to that chunk, with all its descendants,   *)
(* nested in at-rules with the names and params of the at-rules it is      *)
(* nested in.                                                              *)
(***************************************************************************)
C29_SplitOnlyOnOverflow ==
  [][ (/\ pc = "running" /\ work # <<>>
       /\ ast[Head(work).node].type = "atrule"
       /\ Len(ast[Head(work).node].nodes) > 0) =>
        LET i == Head(work).node
            chain == Head(work).parentChain
            after == WithAncestors(currentChunk'.nodes, <<>>)
        IN  /\ work' = Frames(ast[i].nodes, Head(work).parentShell, Append(chain, i))
                         \o Tail(work) =>
                 /\ size > 0
                 /\ currentChunkSize + NodeSize(ast, i) > size
                 /\ HasActualContent(ast, i)
                 /\ ~(ast[i].name \in nonSplittableAtRules)
            /\ (size > 0 /\ currentChunkSize + NodeSize(ast, i) <= size) =>
                 /\ finalChunks' = finalChunks
                 /\ \E k \in 1..Len(after) :
                      /\ after[k].node = Clone(ast, i, "placed")
                      /\ Len(after[k].ancestors) = Len(chain)
                      /\ \A j \in 1..Len(chain) :
                           /\ after[k].ancestors[j].type = "atrule"
                           /\ after[k].ancestors[j].name = ast[chain[j]].name
                           /\ after[k].ancestors[j].params = ast[chain[j]].params ]_vars
====
